---- MODULE Spec2Model ----
(***************************************************************************)
(* Authentication and session lifecycle of the Cred-It backend:            *)
(* MainServer/creditapp/secure_auth_views.py (secure_login, refresh_token, *)
(* secure_logout, get_current_user, google_login, github_login).  Tokens   *)
(* are the claim sets that                                                 *)
(* rest_framework_simplejwt signs; the Revocation Ledger is its token      *)
(* blacklist; the account store is the CreditAccount table.                *)
(***************************************************************************)
EXTENDS Integers, Sequences, FiniteSets, TLC

VARIABLES
    now,        \* the clock, in seconds
    store,      \* the CreditAccount table: AccountID -> row
    blacklist,  \* the Revocation Ledger: identifiers of blacklisted tokens
    nextJti,    \* the next unused token identifier
    issued,     \* every token a response has carried so far
    consumed,   \* history: refresh tokens a refresh has succeeded with
    loggedOut,  \* history: refresh tokens secure_logout ran on while decodable
    req,        \* the request being answered at this instant, if any
    resp,       \* the response to it
    inflight    \* refresh requests handled step by step, one per worker

vars == <<now, store, blacklist, nextJti, issued, consumed, loggedOut, req, resp,
          inflight>>

----------------------------------------------------------------------------
(* Bounds of the model *)

\* how many token identifiers (uuid4 values) may be drawn in one behaviour
MaxJti == 4

\* how many access lifetimes the clock may run past one refresh lifetime
MaxSteps == 1

\* how many refresh requests are handled concurrently
NumWorkers == 2

\* how many entries GitHub's email list may hold
MaxEmails == 2

----------------------------------------------------------------------------
(* Configuration the handlers read from settings *)

\* SIMPLE_JWT ACCESS_TOKEN_LIFETIME: access tokens live 15 minutes
AccessLifetime == 15 * 60

\* SIMPLE_JWT REFRESH_TOKEN_LIFETIME: the lifetime RefreshToken() gives a token
RefreshLifetime == 24 * 60 * 60

\* rest_framework_simplejwt.token_blacklist is installed: RefreshToken has
\* blacklist() and its verification consults the blacklist
TokenBlacklistInstalled == TRUE

JWT_AUTH_COOKIE == "access_token"

JWT_AUTH_REFRESH_COOKIE == "refresh_token"

----------------------------------------------------------------------------
(* Cookie max-ages written in the handlers *)

AccessMaxAge == 15 * 60

\* mutant: the refresh cookie of a login lives a day whatever was asked
LoginRefreshMaxAgeDay(stay_logged_in) == 24 * 60 * 60

LoginRefreshMaxAge(stay_logged_in) ==
    IF stay_logged_in THEN 30 * 24 * 60 * 60 ELSE 24 * 60 * 60

RefreshRefreshMaxAge == 24 * 60 * 60

----------------------------------------------------------------------------
(* The clock: seconds.  It advances by an access lifetime or by a refresh  *)
(* lifetime, so that a token is seen before its expiry (at the instant it  *)
(* was issued), exactly at its expiry, and after it.  At most MaxSteps     *)
(* access lifetimes pass before and after the one refresh lifetime.        *)

TickSteps == {AccessLifetime, RefreshLifetime}

Horizon == RefreshLifetime + MaxSteps * AccessLifetime

----------------------------------------------------------------------------
(* Account store: CreditAccount rows keyed by AccountID *)

AccountIDs == {"S001", "F001", "F002", "admin@x", "new@x", "nobody"}

NoAccount == [AccountPass |-> "", Status |-> ""]

\* str.capitalize() on the Status strings the store holds
Capitalize(s) ==
    CASE s = "student" -> "Student"
      [] s = "Student" -> "Student"
      [] s = "STUDENT" -> "Student"
      [] s = "faculty" -> "Faculty"
      [] s = "Faculty" -> "Faculty"
      [] s = "admin"   -> "Admin"
      [] s = "Admin"   -> "Admin"
      [] s = "ADMIN"   -> "Admin"
      [] OTHER         -> s

\* django.contrib.auth.hashers.make_password, salt left out: the encoded
\* one-way hash of a raw password
make_password(raw) ==
    CASE raw = "p1" -> "pbkdf2$p1"
      [] raw = "p2" -> "pbkdf2$p2"
      [] raw = "r1" -> "pbkdf2$r1"
      [] raw = "r2" -> "pbkdf2$r2"
      [] OTHER      -> "pbkdf2$other"

\* django.contrib.auth.hashers.check_password: the raw password hashes to the
\* encoded value; an encoded value that is no hash matches nothing
check_password(raw, encoded) == encoded = make_password(raw)

InitialStore ==
    [a \in AccountIDs |->
        CASE a = "S001" -> [AccountPass |-> make_password("p1"), Status |-> "Student"]
          [] a = "F001" -> [AccountPass |-> "p2", Status |-> "faculty"]
          [] a = "F002" -> [AccountPass |-> make_password("p2"), Status |-> "Faculty"]
          [] a = "admin@x" -> [AccountPass |-> "p1", Status |-> "ADMIN"]
          [] OTHER      -> NoAccount]

\* CreditAccount.objects.get(AccountID=...) raises DoesNotExist
DoesNotExist(st, account_id) ==
    \/ account_id \notin AccountIDs
    \/ st[account_id] = NoAccount

----------------------------------------------------------------------------
(* Token codec: rest_framework_simplejwt tokens and PyJWT decoding *)

NoCookie ==
    [form |-> "none", sig |-> "", token_type |-> "", username |-> "",
     role |-> "", iat |-> 0, exp |-> 0, jti |-> 0]

Garbage ==
    [form |-> "malformed", sig |-> "", token_type |-> "", username |-> "",
     role |-> "", iat |-> 0, exp |-> 0, jti |-> 0]

\* RefreshToken() followed by refresh['username'] = ..., refresh['role'] = ...
\* and str(refresh): a signed refresh token issued at time t with identifier j
NewRefreshToken(username, role, t, j) ==
    [form |-> "jwt", sig |-> "ok", token_type |-> "refresh",
     username |-> username, role |-> role,
     iat |-> t, exp |-> t + RefreshLifetime, jti |-> j]

\* mutant: the access token is built without the role claim
AccessTokenOfNoRole(refresh, t, j) ==
    [form |-> "jwt", sig |-> "ok", token_type |-> "access",
     username |-> refresh.username, role |-> "",
     iat |-> refresh.iat, exp |-> t + AccessLifetime, jti |-> j]

\* refresh.access_token: a new access token with a new identifier, expiring
\* an access lifetime after t, with every other claim of the refresh token
\* (username, role, iat) copied
AccessTokenOf(refresh, t, j) ==
    [form |-> "jwt", sig |-> "ok", token_type |-> "access",
     username |-> refresh.username, role |-> refresh.role,
     iat |-> refresh.iat, exp |-> t + AccessLifetime, jti |-> j]

\* a token whose signature does not verify (tampered, or signed with another key)
Forge(tok) == [tok EXCEPT !.sig = "bad"]

\* RefreshToken(value) raises TokenError: bad structure or signature, expired,
\* wrong token type, or blacklisted
TokenError(value, t, bl) ==
    \/ value.form # "jwt"
    \/ value.sig # "ok"
    \/ value.exp <= t
    \/ value.token_type # "refresh"
    \/ (TokenBlacklistInstalled /\ value.jti \in bl)

\* mutant: a token is still accepted at the second it expires
JwtDecodeStrict(value, t) ==
    IF value.form # "jwt" \/ value.sig # "ok" THEN "InvalidTokenError"
    ELSE IF value.exp < t THEN "ExpiredSignatureError"
    ELSE "payload"

\* jwt.decode(access_token, SECRET_KEY, algorithms=['HS256']): the signature
\* is verified first, then the expiry (expired when exp <= now)
JwtDecode(value, t) ==
    IF value.form # "jwt" \/ value.sig # "ok" THEN "InvalidTokenError"
    ELSE IF value.exp <= t THEN "ExpiredSignatureError"
    ELSE "payload"

----------------------------------------------------------------------------
(* Requests and responses *)

\* what a federated login receives: the credential of the request body
\* (Google access token, GitHub code) and the replies of the provider to the
\* outbound calls: first (Google token introspection, GitHub token
\* exchange), profile (GitHub /user), email (the email of the introspection
\* reply or of the profile), list and emails (GitHub /user/emails)
NoOAuth ==
    [credential |-> "", first |-> "", profile |-> "", email |-> "",
     list |-> "", emails |-> <<>>]

NoRequest ==
    [op |-> "none", body_ok |-> TRUE, account_id |-> "", account_pass |-> "",
     stay_logged_in |-> FALSE, cookie |-> NoCookie, authenticated |-> FALSE,
     oauth |-> NoOAuth]

OAuthRequest(op, body_ok, o) ==
    [NoRequest EXCEPT !.op = op, !.body_ok = body_ok, !.oauth = o]

LoginRequest(body_ok, account_id, account_pass, stay_logged_in) ==
    [NoRequest EXCEPT !.op = "login", !.body_ok = body_ok,
                      !.account_id = account_id, !.account_pass = account_pass,
                      !.stay_logged_in = stay_logged_in]

CookieRequest(op, cookie, authenticated) ==
    [NoRequest EXCEPT !.op = op, !.cookie = cookie,
                      !.authenticated = authenticated]

\* JsonResponse with an error message, or a bare success body
Response(op, status, error) ==
    [op |-> op, status |-> status, error |-> error,
     access |-> NoCookie, refresh |-> NoCookie,
     access_max_age |-> 0, refresh_max_age |-> 0,
     deleted |-> {}, username |-> "", role |-> ""]

\* what a client can put in a cookie: nothing, garbage, a token it was given,
\* or a tampered copy of one
Presentable == {NoCookie, Garbage} \cup issued \cup {Forge(tok) : tok \in issued}

Workers == 1 .. NumWorkers

\* a worker with no request; op, call and email are those of a federated login
Idle ==
    [pc |-> "idle", value |-> NoCookie, fresh |-> FALSE, status |-> 0,
     op |-> "", call |-> "", email |-> ""]

Passwords == {"", "p1", "p2", "pbkdf2$p1", "pbkdf2$p2"}

SubmittedIDs == {"", "S001", "F001", "F002", "admin@x", "nobody"}

----------------------------------------------------------------------------
Init ==
    /\ now = 0
    /\ store = InitialStore
    /\ blacklist = {}
    /\ nextJti = 1
    /\ issued = {}
    /\ consumed = {}
    /\ loggedOut = {}
    /\ req = NoRequest
    /\ resp = Response("none", 0, "")
    /\ inflight = [w \in Workers |-> Idle]

----------------------------------------------------------------------------
(* secure_login *)

\* mutant: a secret is accepted when it passes either check
password_valid_either(profile, account_pass) ==
    \/ check_password(account_pass, profile.AccountPass)
    \/ account_pass = profile.AccountPass

\* the password check, selected by the capitalized Status of the row
password_valid(profile, account_pass) ==
    IF Capitalize(profile.Status) = "Student"
    THEN check_password(account_pass, profile.AccountPass)
    ELSE account_pass = profile.AccountPass

\* mutant: the account is looked up before the fields are checked
LoginStatusLookupFirst(st, body_ok, account_id, account_pass) ==
    IF ~body_ok THEN 500
    ELSE IF DoesNotExist(st, account_id) THEN 404
    ELSE IF account_id = "" \/ account_pass = "" THEN 400
    ELSE IF ~password_valid(st[account_id], account_pass) THEN 401
    ELSE 200

\* mutant: an unknown account is answered like a wrong password
LoginStatusUniform(st, body_ok, account_id, account_pass) ==
    IF ~body_ok THEN 500
    ELSE IF account_id = "" \/ account_pass = "" THEN 400
    ELSE IF DoesNotExist(st, account_id) THEN 401
    ELSE IF ~password_valid(st[account_id], account_pass) THEN 401
    ELSE 200

\* the status of the login response; a missing field and an empty one are
\* both falsy and are both written ""
LoginStatus(st, body_ok, account_id, account_pass) ==
    IF ~body_ok THEN 500
    ELSE IF account_id = "" \/ account_pass = "" THEN 400
    ELSE IF DoesNotExist(st, account_id) THEN 404
    ELSE IF ~password_valid(st[account_id], account_pass) THEN 401
    ELSE 200

LoginError(status) ==
    CASE status = 500 -> "json.loads: exception text"
      [] status = 400 -> "AccountID and Password are required"
      [] status = 404 -> "Account not found"
      [] status = 401 -> "Incorrect password"
      [] OTHER        -> ""

\* mutant: the role claim is the stored Status, not capitalized
LoginSuccessRawStatus(st, account_id, stay_logged_in, t, j) ==
    LET role    == st[account_id].Status
        refresh == NewRefreshToken(account_id, role, t, j)
        access  == AccessTokenOf(refresh, t, j + 1)
    IN  [Response("login", 200, "") EXCEPT
            !.username = account_id, !.role = role,
            !.access = access, !.access_max_age = AccessMaxAge,
            !.refresh = refresh,
            !.refresh_max_age = LoginRefreshMaxAge(stay_logged_in)]

\* the tokens and cookies of a successful login, drawn at time t with the
\* identifiers j (refresh) and j + 1 (access)
LoginSuccess(st, account_id, stay_logged_in, t, j) ==
    LET role    == Capitalize(st[account_id].Status)
        refresh == NewRefreshToken(account_id, role, t, j)
        access  == AccessTokenOf(refresh, t, j + 1)
    IN  [Response("login", 200, "") EXCEPT
            !.username = account_id, !.role = role,
            !.access = access, !.access_max_age = AccessMaxAge,
            !.refresh = refresh,
            !.refresh_max_age = LoginRefreshMaxAge(stay_logged_in)]

secure_login(body_ok, account_id, account_pass, stay_logged_in) ==
    LET status == LoginStatus(store, body_ok, account_id, account_pass)
    IN  /\ req' = LoginRequest(body_ok, account_id, account_pass, stay_logged_in)
        /\ IF status = 200
           THEN /\ nextJti + 1 <= MaxJti
                /\ resp' = LoginSuccess(store, account_id, stay_logged_in, now, nextJti)
                /\ issued' = issued \cup {resp'.access, resp'.refresh}
                /\ nextJti' = nextJti + 2
           ELSE /\ resp' = Response("login", status, LoginError(status))
                /\ UNCHANGED <<issued, nextJti>>
        /\ UNCHANGED <<now, store, blacklist, consumed, loggedOut, inflight>>

----------------------------------------------------------------------------
(* refresh_token *)

\* mutant: the refresh cookie gets a new token with a full lifetime
RotatedRefreshTokenSliding(value, t, j) ==
    [value EXCEPT !.iat = t, !.exp = t + RefreshLifetime, !.jti = j]

\* the refresh token the handler puts in the refresh cookie: str(refresh) of
\* the token object built from the presented value
RotatedRefreshToken(value, t, j) == value

\* the ledger after the handler has run on a token that verified
RefreshLedger(value, bl) == bl

\* mutant: the refresh sets the access cookie and leaves the refresh cookie
RefreshSuccessAccessOnly(value, t, j) ==
    [Response("refresh", 200, "") EXCEPT
        !.access = AccessTokenOf(value, t, j),
        !.access_max_age = AccessMaxAge]

\* the response to a token that verified: new access cookie, refresh cookie
RefreshSuccess(value, t, j) ==
    [Response("refresh", 200, "") EXCEPT
        !.access = AccessTokenOf(value, t, j),
        !.access_max_age = AccessMaxAge,
        !.refresh = RotatedRefreshToken(value, t, j + 1),
        !.refresh_max_age = RefreshRefreshMaxAge]

\* mutant: a refused refresh clears the cookies of the browser
RefreshResponseClearing(value, t, bl, j) ==
    IF value = NoCookie
    THEN Response("refresh", 401, "Refresh token not found")
    ELSE IF TokenError(value, t, bl)
    THEN [Response("refresh", 401, "Invalid or expired refresh token") EXCEPT
            !.deleted = {JWT_AUTH_COOKIE, JWT_AUTH_REFRESH_COOKIE}]
    ELSE RefreshSuccess(value, t, j)

RefreshResponse(value, t, bl, j) ==
    IF value = NoCookie
    THEN Response("refresh", 401, "Refresh token not found")
    ELSE IF TokenError(value, t, bl)
    THEN Response("refresh", 401, "Invalid or expired refresh token")
    ELSE RefreshSuccess(value, t, j)

refresh_token(value) ==
    /\ req' = CookieRequest("refresh", value, FALSE)
    /\ resp' = RefreshResponse(value, now, blacklist, nextJti)
    /\ IF resp'.status = 200
       THEN /\ nextJti <= MaxJti
            /\ issued' = issued \cup {resp'.access, resp'.refresh}
            /\ nextJti' = nextJti + 1
            /\ blacklist' = RefreshLedger(value, blacklist)
            /\ consumed' = consumed \cup {value}
       ELSE UNCHANGED <<issued, nextJti, blacklist, consumed>>
    /\ UNCHANGED <<now, store, loggedOut, inflight>>

----------------------------------------------------------------------------
(* secure_logout *)

\* mutant: the handler decodes the token and never blacklists it
LogoutLedgerNoBlacklist(value, t, bl) == bl

\* mutant: revoking an identifier the ledger holds takes it out again
LogoutLedgerToggle(value, t, bl) ==
    IF value.form # "jwt" \/ value.sig # "ok" \/ value.token_type # "refresh"
    THEN bl
    ELSE IF value.jti \in bl THEN bl \ {value.jti} ELSE bl \cup {value.jti}

\* token = RefreshToken(value); token.blacklist(), every exception swallowed
LogoutLedger(value, t, bl) ==
    IF value # NoCookie /\ ~TokenError(value, t, bl) /\ TokenBlacklistInstalled
    THEN bl \cup {value.jti}
    ELSE bl

\* mutant: the TokenError of an undecodable cookie is not swallowed
LogoutResponseSurfacing(value, t, bl) ==
    IF value # NoCookie /\ TokenError(value, t, bl)
    THEN Response("logout", 401, "Invalid or expired refresh token")
    ELSE [Response("logout", 200, "") EXCEPT
            !.deleted = {JWT_AUTH_COOKIE, JWT_AUTH_REFRESH_COOKIE}]

\* the response of the handler body
LogoutResponse(value, t, bl) ==
    [Response("logout", 200, "") EXCEPT
        !.deleted = {JWT_AUTH_COOKIE, JWT_AUTH_REFRESH_COOKIE}]

\* a refresh token the codec decodes: well-formed, signed, not expired
Decodable(value, t) ==
    /\ value.form = "jwt"
    /\ value.sig = "ok"
    /\ value.token_type = "refresh"
    /\ t < value.exp

\* permission_classes([IsAuthenticated]): a request the configured
\* authenticators did not authenticate is answered 401 or 403 by the
\* framework and the handler body does not run
secure_logout(value, authenticated, denied) ==
    /\ req' = CookieRequest("logout", value, authenticated)
    /\ IF authenticated
       THEN /\ resp' = LogoutResponse(value, now, blacklist)
            /\ blacklist' = LogoutLedger(value, now, blacklist)
            /\ loggedOut' = IF Decodable(value, now)
                            THEN loggedOut \cup {value} ELSE loggedOut
       ELSE /\ resp' = Response("logout", denied,
                                "Authentication credentials were not provided.")
            /\ UNCHANGED <<blacklist, loggedOut>>
    /\ UNCHANGED <<now, store, nextJti, issued, consumed, inflight>>

----------------------------------------------------------------------------
(* get_current_user *)

\* mutant: the role claim is not read back from the payload
CurrentUserResponseNoRole(value, t) ==
    IF value = NoCookie
    THEN Response("me", 401, "Not authenticated")
    ELSE IF JwtDecode(value, t) = "ExpiredSignatureError"
    THEN Response("me", 401, "Token expired")
    ELSE IF JwtDecode(value, t) = "InvalidTokenError"
    THEN Response("me", 401, "Invalid token")
    ELSE IF value.username = ""
    THEN Response("me", 401, "Invalid token")
    ELSE [Response("me", 200, "") EXCEPT !.username = value.username]

CurrentUserResponse(value, t) ==
    IF value = NoCookie
    THEN Response("me", 401, "Not authenticated")
    ELSE IF JwtDecode(value, t) = "ExpiredSignatureError"
    THEN Response("me", 401, "Token expired")
    ELSE IF JwtDecode(value, t) = "InvalidTokenError"
    THEN Response("me", 401, "Invalid token")
    ELSE IF value.username = ""
    THEN Response("me", 401, "Invalid token")
    ELSE [Response("me", 200, "") EXCEPT
            !.username = value.username, !.role = value.role]

\* mutant: a token of a session whose refresh token is blacklisted is refused
get_current_user_revocable(value) ==
    /\ req' = CookieRequest("me", value, FALSE)
    /\ resp' = IF \E r \in issued : /\ r.token_type = "refresh"
                                     /\ r.jti \in blacklist
                                     /\ r.username = value.username
                                     /\ r.iat = value.iat
               THEN Response("me", 401, "Invalid token")
               ELSE CurrentUserResponse(value, now)
    /\ UNCHANGED <<now, store, blacklist, nextJti, issued, consumed, loggedOut,
                   inflight>>

get_current_user(value) ==
    /\ req' = CookieRequest("me", value, FALSE)
    /\ resp' = CurrentUserResponse(value, now)
    /\ UNCHANGED <<now, store, blacklist, nextJti, issued, consumed, loggedOut,
                   inflight>>

----------------------------------------------------------------------------
(* Federated login: google_login and github_login *)

\* identifiers a provider may report as the email of the signed-in user
Emails == {"admin@x", "new@x"}

\* secrets.token_urlsafe(16): the random password of a provisioned account
RandomPasswords == {"r1", "r2"}

\* the entries of GitHub's /user/emails reply: each address as a primary
\* verified entry, and one address with a flag or both missing; and the
\* replies themselves
EmailEntries ==
    [email : Emails, primary : {TRUE}, verified : {TRUE}]
    \cup {e \in [email : {"new@x"}, primary : BOOLEAN, verified : BOOLEAN] :
            ~(e.primary /\ e.verified)}

EmailLists == UNION {[1 .. n -> EmailEntries] : n \in 0 .. MaxEmails}

\* an exception that no except clause of the handler catches: the handler
\* returns no response and the exception reaches the framework
Raised(op) == Response(op, 0, "unhandled exception")

\* mutant: the random password is stored as it was drawn
ProvisionedAccountPlain(random_pass) ==
    [AccountPass |-> random_pass, Status |-> "Student"]

\* CreditAccount(AccountID=email, AccountPass=make_password(random_pass),
\* Status="Student")
ProvisionedAccount(random_pass) ==
    [AccountPass |-> make_password(random_pass), Status |-> "Student"]

\* mutant: the new account is built and never saved
FindOrCreateStoreNoSave(st, email, random_pass) == st

\* the store after objects.get(AccountID=email) and, on DoesNotExist,
\* profile.save() of the provisioned account
FindOrCreateStore(st, email, random_pass) ==
    IF DoesNotExist(st, email)
    THEN [st EXCEPT ![email] = ProvisionedAccount(random_pass)]
    ELSE st

\* the role of the session: the capitalized Status of the account found,
\* "Student" for an account just created
FindOrCreateRole(st, email) ==
    IF DoesNotExist(st, email) THEN "Student" ELSE Capitalize(st[email].Status)

FederatedRefreshMaxAge == 30 * 24 * 60 * 60

\* mutant: the federated session gets the refresh window of a plain login
FederatedSuccessSessionWindow(op, email, role, t, j) ==
    LET refresh == NewRefreshToken(email, role, t, j)
        access  == AccessTokenOf(refresh, t, j + 1)
    IN  [Response(op, 200, "") EXCEPT
            !.username = email, !.role = role,
            !.access = access, !.access_max_age = AccessMaxAge,
            !.refresh = refresh,
            !.refresh_max_age = LoginRefreshMaxAge(FALSE)]

\* the tokens and cookies of a successful federated login
FederatedSuccess(op, email, role, t, j) ==
    LET refresh == NewRefreshToken(email, role, t, j)
        access  == AccessTokenOf(refresh, t, j + 1)
    IN  [Response(op, 200, "") EXCEPT
            !.username = email, !.role = role,
            !.access = access, !.access_max_age = AccessMaxAge,
            !.refresh = refresh,
            !.refresh_max_age = FederatedRefreshMaxAge]

\* the requests google_login is given: no token; a token whose introspection
\* is answered with a status other than 200, fails in transport, or is
\* answered with something that is no JSON object; a token whose
\* introspection succeeds, with or without an email
GoogleExchanges ==
    {NoOAuth}
    \cup {[NoOAuth EXCEPT !.credential = "token", !.first = f] :
            f \in {"non200", "URLError", "not_object"}}
    \cup {[NoOAuth EXCEPT !.credential = "token", !.first = "ok", !.email = e] :
            e \in {""} \cup Emails}

\* google_login up to its return; the try at its top has no except clause,
\* so what the inner try does not catch leaves the handler
GoogleResponse(st, body_ok, o, t, j) ==
    IF ~body_ok THEN Raised("google")
    ELSE IF o.credential = ""
    THEN Response("google", 400, "Google token required")
    ELSE IF o.first = "non200"
    THEN Response("google", 401, "Invalid Google token")
    ELSE IF o.first = "URLError"
    THEN Response("google", 401, "Failed to verify token: URLError")
    ELSE IF o.first = "not_object" THEN Raised("google")
    ELSE IF o.email = ""
    THEN Response("google", 400, "Email not found in Google token")
    ELSE FederatedSuccess("google", o.email, FindOrCreateRole(st, o.email), t, j)

google_login(body_ok, o) ==
    /\ req' = OAuthRequest("google", body_ok, o)
    /\ resp' = GoogleResponse(store, body_ok, o, now, nextJti)
    /\ IF resp'.status = 200
       THEN /\ nextJti + 1 <= MaxJti
            /\ \E random_pass \in RandomPasswords :
                  store' = FindOrCreateStore(store, o.email, random_pass)
            /\ issued' = issued \cup {resp'.access, resp'.refresh}
            /\ nextJti' = nextJti + 2
       ELSE UNCHANGED <<store, issued, nextJti>>
    /\ UNCHANGED <<now, blacklist, consumed, loggedOut, inflight>>

\* the requests github_login is given: no code; a code whose exchange gives
\* no token, fails in transport, or is answered with something that is no
\* JSON object; then a profile fetch that fails in transport or succeeds with
\* a public email; then, the email being private, an email-list fetch that
\* fails in transport or returns a list
GithubExchanges ==
    LET exchanged == [NoOAuth EXCEPT !.credential = "code", !.first = "token"]
        fetched   == [exchanged EXCEPT !.profile = "ok"]
    IN  {NoOAuth}
        \cup {[NoOAuth EXCEPT !.credential = "code", !.first = f] :
                f \in {"no_token", "URLError", "not_object"}}
        \cup {[exchanged EXCEPT !.profile = "URLError"]}
        \cup {[fetched EXCEPT !.email = e] : e \in Emails}
        \cup {[fetched EXCEPT !.list = "URLError"]}
        \cup {[fetched EXCEPT !.list = "ok", !.emails = es] : es \in EmailLists}

\* mutant: the first verified entry is taken, primary or not
FirstPrimaryVerifiedLoose(emails) ==
    LET hits == {i \in 1 .. Len(emails) : emails[i].verified}
    IN  IF hits = {} THEN ""
        ELSE emails[CHOOSE i \in hits : \A k \in hits : i <= k].email

\* for e in emails: if e.get("primary") and e.get("verified"): take its email
\* and break; "" when the loop ends without one
RECURSIVE FirstPrimaryVerified(_)
FirstPrimaryVerified(emails) ==
    IF emails = <<>> THEN ""
    ELSE IF Head(emails).primary /\ Head(emails).verified THEN Head(emails).email
    ELSE FirstPrimaryVerified(Tail(emails))

\* the email after step 3: the profile's public email, else the one picked
\* from the email list
GithubEmail(o) ==
    IF o.email # "" THEN o.email ELSE FirstPrimaryVerified(o.emails)

\* github_login up to its return; only the token exchange is inside the
\* inner try, every other exception reaches except Exception
GithubResponse(st, body_ok, o, t, j) ==
    IF ~body_ok THEN Response("github", 500, "json.loads: exception text")
    ELSE IF o.credential = ""
    THEN Response("github", 400, "GitHub code required")
    ELSE IF o.first = "no_token"
    THEN Response("github", 401, "Failed to get GitHub token: error_description")
    ELSE IF o.first = "URLError"
    THEN Response("github", 401, "GitHub token exchange failed: URLError")
    ELSE IF o.first = "not_object"
    THEN Response("github", 500, "json.loads: exception text")
    ELSE IF o.profile = "URLError" THEN Response("github", 500, "URLError")
    ELSE IF o.email = "" /\ o.list = "URLError"
    THEN Response("github", 500, "URLError")
    ELSE IF GithubEmail(o) = ""
    THEN Response("github", 400, "No verified email found for GitHub account")
    ELSE FederatedSuccess("github", GithubEmail(o),
                          FindOrCreateRole(st, GithubEmail(o)), t, j)

github_login(body_ok, o) ==
    /\ req' = OAuthRequest("github", body_ok, o)
    /\ resp' = GithubResponse(store, body_ok, o, now, nextJti)
    /\ IF resp'.status = 200
       THEN /\ nextJti + 1 <= MaxJti
            /\ \E random_pass \in RandomPasswords :
                  store' = FindOrCreateStore(store, resp'.username, random_pass)
            /\ issued' = issued \cup {resp'.access, resp'.refresh}
            /\ nextJti' = nextJti + 2
       ELSE UNCHANGED <<store, issued, nextJti>>
    /\ UNCHANGED <<now, blacklist, consumed, loggedOut, inflight>>

----------------------------------------------------------------------------
\* time passes; the exchange just answered is over
NoResponse == Response("none", 0, "")

Tick(d) ==
    /\ now + d <= Horizon
    /\ d = AccessLifetime => (now % RefreshLifetime) + d <= MaxSteps * AccessLifetime
    /\ now' = now + d
    /\ req' = NoRequest
    /\ resp' = NoResponse
    /\ UNCHANGED <<store, blacklist, nextJti, issued, consumed, loggedOut, inflight>>

----------------------------------------------------------------------------
(* refresh_token handled step by step by concurrent workers: the cookie is *)
(* read, RefreshToken(value) verifies it against the ledger, the response  *)
(* is built.  Steps of different workers interleave.                       *)

\* refresh_token_value = request.COOKIES.get(...); 401 when there is none
RefreshReceive(w, value) ==
    /\ inflight[w].pc = "idle"
    /\ inflight' = [inflight EXCEPT ![w] =
          IF value = NoCookie
          THEN [Idle EXCEPT !.pc = "done", !.status = 401]
          ELSE [Idle EXCEPT !.pc = "received", !.value = value,
                            !.fresh = ~TokenError(value, now, blacklist)]]
    /\ UNCHANGED <<now, store, blacklist, nextJti, issued, consumed, loggedOut,
                   req, resp>>

\* refresh = RefreshToken(refresh_token_value); TokenError gives 401
RefreshVerify(w) ==
    /\ inflight[w].pc = "received"
    /\ inflight' = [inflight EXCEPT ![w] =
          IF TokenError(inflight[w].value, now, blacklist)
          THEN [@ EXCEPT !.pc = "done", !.status = 401]
          ELSE [@ EXCEPT !.pc = "verified"]]
    /\ UNCHANGED <<now, store, blacklist, nextJti, issued, consumed, loggedOut,
                   req, resp>>

\* the access token is derived, both cookies are set, the response returns
RefreshRespond(w) ==
    /\ inflight[w].pc = "verified"
    /\ nextJti <= MaxJti
    /\ req' = CookieRequest("refresh", inflight[w].value, FALSE)
    /\ resp' = RefreshSuccess(inflight[w].value, now, nextJti)
    /\ issued' = issued \cup {resp'.access, resp'.refresh}
    /\ nextJti' = nextJti + 1
    /\ blacklist' = RefreshLedger(inflight[w].value, blacklist)
    /\ consumed' = consumed \cup {inflight[w].value}
    /\ inflight' = [inflight EXCEPT ![w] = [@ EXCEPT !.pc = "done", !.status = 200]]
    /\ UNCHANGED <<now, store, loggedOut>>

----------------------------------------------------------------------------
(* google_login and github_login handled step by step by concurrent        *)
(* workers: each outbound call waits for the provider, then the account is *)
(* looked up, saved when it was not found, and the response is built.      *)
(* The replies here are those that carry on; the failed ones are in        *)
(* GoogleResponse and GithubResponse.                                      *)

\* the first outbound call of a handler
FirstCall(op) == IF op = "google" THEN "tokeninfo" ELSE "exchange"

\* the body is read and urllib.request.urlopen(...) is called, with no
\* timeout argument: the worker blocks until the provider answers
FederatedCall(w, op) ==
    /\ inflight[w].pc = "idle"
    /\ inflight' = [inflight EXCEPT ![w] =
          [Idle EXCEPT !.pc = "calling", !.op = op, !.call = FirstCall(op)]]
    /\ UNCHANGED <<now, store, blacklist, nextJti, issued, consumed, loggedOut,
                   req, resp>>

\* the provider answers the call the worker waits on: the exchange with a
\* token, the profile with a public email or without, tokeninfo and the
\* email list with the resolved email or with none (400)
ProviderAnswers(w, email) ==
    /\ inflight[w].pc = "calling"
    /\ inflight[w].call = "exchange" => email = ""
    /\ inflight' = [inflight EXCEPT ![w] =
          IF inflight[w].call = "exchange" THEN [@ EXCEPT !.call = "profile"]
          ELSE IF inflight[w].call = "profile" /\ email = ""
          THEN [@ EXCEPT !.call = "emails"]
          ELSE IF email = "" THEN [@ EXCEPT !.pc = "done", !.status = 400]
          ELSE [@ EXCEPT !.pc = "resolved", !.email = email]]
    /\ UNCHANGED <<now, store, blacklist, nextJti, issued, consumed, loggedOut,
                   req, resp>>

\* profile = CreditAccount.objects.get(AccountID=email), or DoesNotExist
FederatedLookup(w) ==
    /\ inflight[w].pc = "resolved"
    /\ inflight' = [inflight EXCEPT ![w] =
          IF DoesNotExist(store, inflight[w].email)
          THEN [@ EXCEPT !.pc = "absent"]
          ELSE [@ EXCEPT !.pc = "found"]]
    /\ UNCHANGED <<now, store, blacklist, nextJti, issued, consumed, loggedOut,
                   req, resp>>

\* the insert of a row whose AccountID the table already holds fails: the
\* identifier is unique
IntegrityError(st, email) == ~DoesNotExist(st, email)

\* what the handler makes of an exception raised by profile.save(): nothing
\* catches it in google_login, except Exception gives 500 in github_login
SaveFailureStatus(op) == IF op = "google" THEN 0 ELSE 500

\* profile.save() of the account built after DoesNotExist
FederatedSave(w, random_pass) ==
    /\ inflight[w].pc = "absent"
    /\ IF IntegrityError(store, inflight[w].email)
       THEN /\ inflight' = [inflight EXCEPT ![w] =
                  [@ EXCEPT !.pc = "done",
                            !.status = SaveFailureStatus(inflight[w].op)]]
            /\ UNCHANGED store
       ELSE /\ inflight' = [inflight EXCEPT ![w] = [@ EXCEPT !.pc = "found"]]
            /\ store' = FindOrCreateStore(store, inflight[w].email, random_pass)
    /\ UNCHANGED <<now, blacklist, nextJti, issued, consumed, loggedOut, req, resp>>

\* the tokens are drawn, both cookies are set, the response returns
FederatedRespond(w) ==
    /\ inflight[w].pc = "found"
    /\ nextJti + 1 <= MaxJti
    /\ req' = OAuthRequest(inflight[w].op, TRUE,
                           [NoOAuth EXCEPT !.email = inflight[w].email])
    /\ resp' = FederatedSuccess(inflight[w].op, inflight[w].email,
                                FindOrCreateRole(store, inflight[w].email),
                                now, nextJti)
    /\ issued' = issued \cup {resp'.access, resp'.refresh}
    /\ nextJti' = nextJti + 2
    /\ inflight' = [inflight EXCEPT ![w] = [@ EXCEPT !.pc = "done", !.status = 200]]
    /\ UNCHANGED <<now, store, blacklist, consumed, loggedOut>>

----------------------------------------------------------------------------
(* Specifications *)

\* the logins of the session specification: each account with its password,
\* a wrong password, an unknown account
SessionLogins ==
    {<<"S001", "p1">>, <<"F001", "p2">>, <<"S001", "p2">>, <<"nobody", "p1">>}

\* sessions: every handler, whole requests one after another
Next ==
    \/ \E d \in TickSteps : Tick(d)
    \/ \E c \in SessionLogins, s \in BOOLEAN : secure_login(TRUE, c[1], c[2], s)
    \/ \E v \in Presentable : refresh_token(v)
    \/ \E v \in Presentable : secure_logout(v, TRUE, 200)
    \/ \E v \in {NoCookie} \cup issued, d \in {401, 403} : secure_logout(v, FALSE, d)
    \/ \E v \in Presentable : get_current_user(v)

Spec == Init /\ [][Next]_vars

\* login alone, over every combination of submitted identifier and secret,
\* and a body that is no JSON object
NextLogin ==
    \/ \E d \in TickSteps : Tick(d)
    \/ \E a \in SubmittedIDs, p \in Passwords, s \in BOOLEAN :
          secure_login(TRUE, a, p, s)
    \/ secure_login(FALSE, "", "", FALSE)

SpecLogin == Init /\ [][NextLogin]_vars

\* refresh requests whose steps interleave, with logins, logouts and the clock
NextConcurrent ==
    \/ \E d \in TickSteps : Tick(d)
    \/ secure_login(TRUE, "S001", "p1", FALSE)
    \/ \E w \in Workers, v \in Presentable : RefreshReceive(w, v)
    \/ \E w \in Workers : RefreshVerify(w)
    \/ \E w \in Workers : RefreshRespond(w)
    \/ \E v \in Presentable : secure_logout(v, TRUE, 200)

SpecConcurrent == Init /\ [][NextConcurrent]_vars

\* federated logins whose steps interleave
NextProvisioning ==
    \/ \E w \in Workers, op \in {"google", "github"} : FederatedCall(w, op)
    \/ \E w \in Workers, e \in {""} \cup Emails : ProviderAnswers(w, e)
    \/ \E w \in Workers : FederatedLookup(w)
    \/ \E w \in Workers, r \in RandomPasswords : FederatedSave(w, r)
    \/ \E w \in Workers : FederatedRespond(w)

SpecProvisioning == Init /\ [][NextProvisioning]_vars

\* the same with the scheduling of the server: a worker that can take a step
\* of its handler takes it; nothing makes a provider answer
SpecProvisioningLive ==
    /\ SpecProvisioning
    /\ \A w \in Workers :
          /\ WF_vars(FederatedLookup(w))
          /\ WF_vars(\E r \in RandomPasswords : FederatedSave(w, r))
          /\ WF_vars(FederatedRespond(w))

\* the logins of the federation specification: each account with its password
FederationLogins == {<<"S001", "p1">>, <<"F001", "p2">>, <<"admin@x", "p1">>}

\* every handler that sets or deletes cookies, and get_current_user, at one
\* instant: password and federated logins side by side on one store
NextFederation ==
    \/ \E c \in FederationLogins, s \in BOOLEAN : secure_login(TRUE, c[1], c[2], s)
    \/ secure_login(FALSE, "", "", FALSE)
    \/ \E o \in GoogleExchanges : google_login(TRUE, o)
    \/ google_login(FALSE, NoOAuth)
    \/ \E o \in GithubExchanges : github_login(TRUE, o)
    \/ github_login(FALSE, NoOAuth)
    \/ \E v \in {NoCookie} \cup issued : refresh_token(v)
    \/ \E v \in {NoCookie} \cup issued : secure_logout(v, TRUE, 200)
    \/ \E v \in issued : get_current_user(v)

SpecFederation == Init /\ [][NextFederation]_vars

----------------------------------------------------------------------------
(* Claims *)

\* a non-stuttering step that answers a request of kind op
Answers(op) == req'.op = op /\ vars' # vars

\* C1: refresh tokens are single-use: a refresh presenting a token that an
\* earlier refresh succeeded with is answered 401.
C1_RefreshSingleUse ==
    [][(Answers("refresh") /\ req'.cookie \in consumed) => resp'.status = 401]_vars

\* C2: of the refresh requests that present the same token, valid and
\* unrevoked when they arrived, and whose steps interleave, at most one is
\* answered 200.
C2_OneConcurrentRefreshSucceeds ==
    \A w1, w2 \in Workers :
        (/\ w1 # w2
         /\ inflight[w1].pc = "done" /\ inflight[w2].pc = "done"
         /\ inflight[w1].value = inflight[w2].value
         /\ inflight[w1].fresh /\ inflight[w2].fresh)
        => ~(inflight[w1].status = 200 /\ inflight[w2].status = 200)

\* C3: when a refresh answers 200, the presented token's identifier is in the
\* ledger and the refresh cookie holds a successor with another identifier
\* that is not in the ledger.
C3_RotationRevokesPresented ==
    (resp.op = "refresh" /\ resp.status = 200)
    => /\ req.cookie.jti \in blacklist
       /\ resp.refresh.jti # req.cookie.jti
       /\ resp.refresh.jti \notin blacklist

\* C4 as stated: every logout request is answered 200 with both cookies
\* deleted.
C4_LogoutAlwaysSucceeds ==
    resp.op = "logout"
    => /\ resp.status = 200
       /\ resp.deleted = {JWT_AUTH_COOKIE, JWT_AUTH_REFRESH_COOKIE}

\* C4 amended: every logout request that passes the IsAuthenticated check is
\* answered 200 with both cookies deleted and no error, whatever the refresh
\* cookie holds: nothing, garbage, an expired, revoked or valid token.
C4_AuthenticatedLogoutSucceeds ==
    (resp.op = "logout" /\ req.authenticated)
    => /\ resp.status = 200
       /\ resp.error = ""
       /\ resp.deleted = {JWT_AUTH_COOKIE, JWT_AUTH_REFRESH_COOKIE}
       /\ resp.access = NoCookie /\ resp.refresh = NoCookie

\* C4 witness: a logout presenting an expired refresh token was answered 200
C4_Witness ==
    /\ resp.op = "logout" /\ req.authenticated
    /\ req.cookie.form = "jwt" /\ req.cookie.token_type = "refresh"
    /\ req.cookie.exp <= now
    /\ resp.status = 200

\* C5: once secure_logout has run on a decodable refresh token, its identifier
\* is in the ledger, no step removes an identifier from the ledger, and every
\* later refresh presenting that token is answered 401.
C5_RevocationPermanent ==
    [][/\ \A v \in loggedOut' : v.jti \in blacklist'
       /\ blacklist \subseteq blacklist'
       /\ (Answers("refresh") /\ req'.cookie \in loggedOut) => resp'.status = 401]_vars

\* C5 witness: a refresh presenting a logged-out token that has not expired
\* was answered 401
C5_Witness ==
    /\ resp.op = "refresh" /\ resp.status = 401
    /\ req.cookie \in loggedOut
    /\ now < req.cookie.exp

\* the role of an account: its Status as login reads it
AccountRole(profile) == Capitalize(profile.Status)

\* the submitted secret matches the stored credential under the method for
\* the account's role: the one-way hash for a Student, equality otherwise
MatchesStoredCredential(profile, secret) ==
    \/ /\ AccountRole(profile) = "Student"
       /\ profile.AccountPass = make_password(secret)
    \/ /\ AccountRole(profile) # "Student"
       /\ profile.AccountPass = secret

\* a login request with both fields whose identifier is not in the store
UnknownIdentifier(r) ==
    /\ r.op = "login" /\ r.body_ok
    /\ r.account_id # "" /\ r.account_pass # ""
    /\ DoesNotExist(store, r.account_id)

\* a login request with both fields, a known identifier and a wrong secret
WrongSecret(r) ==
    /\ r.op = "login" /\ r.body_ok
    /\ r.account_id # "" /\ r.account_pass # ""
    /\ ~DoesNotExist(store, r.account_id)
    /\ ~MatchesStoredCredential(store[r.account_id], r.account_pass)

\* a login request with both fields, a known identifier and its secret
RightSecret(r) ==
    /\ r.op = "login" /\ r.body_ok
    /\ r.account_id # "" /\ r.account_pass # ""
    /\ ~DoesNotExist(store, r.account_id)
    /\ MatchesStoredCredential(store[r.account_id], r.account_pass)

\* C6: a login with the matching password of an account of the store is
\* answered 200 with an access and a refresh token that both decode and both
\* carry the account identifier as subject and the account's role.
C6_LoginIssuesTokens ==
    (resp.op = "login" /\ RightSecret(req))
    => /\ resp.status = 200
       /\ JwtDecode(resp.access, now) = "payload"
       /\ resp.access.token_type = "access"
       /\ ~TokenError(resp.refresh, now, blacklist)
       /\ resp.access.username = req.account_id
       /\ resp.refresh.username = req.account_id
       /\ resp.access.role = AccountRole(store[req.account_id])
       /\ resp.refresh.role = AccountRole(store[req.account_id])

\* C6 witness: the Faculty account, whose Status is stored in lower case,
\* has logged in
C6_Witness ==
    /\ resp.op = "login" /\ RightSecret(req)
    /\ req.account_id = "F001"
    /\ resp.refresh.role = "Faculty"

\* C7: login answers 400 when a field is missing or empty, before any
\* lookup; 404 when the account is unknown; 401 when the password does not
\* match; and 200 only when the account exists and the password matches.
C7_LoginStatuses ==
    (resp.op = "login" /\ req.body_ok)
    => /\ (req.account_id = "" \/ req.account_pass = "") => resp.status = 400
       /\ UnknownIdentifier(req) => resp.status = 404
       /\ WrongSecret(req) => resp.status = 401
       /\ resp.status = 200 => RightSecret(req)

\* C7 witness: an unknown identifier with an empty password was answered 400
C7_Witness ==
    /\ resp.op = "login" /\ req.body_ok
    /\ req.account_id = "nobody" /\ req.account_pass = ""
    /\ resp.status = 400

\* C8 as stated: a failed login with an unknown identifier and the next
\* failed login with a known identifier and a wrong secret get the same
\* status and error.
C8_FailuresIndistinguishable ==
    [][(Answers("login") /\ UnknownIdentifier(req) /\ WrongSecret(req'))
       => (resp'.status = resp.status /\ resp'.error = resp.error)]_vars

\* C8 amended: the outcome of a failed login tells the two kinds of failure
\* apart and nothing more: every unknown identifier gets one and the same
\* 404 response, every wrong secret one and the same 401 response, whatever
\* the identifier, the secret and the role.
C8_FailureKindOnly ==
    /\ UnknownIdentifier(req) => resp = Response("login", 404, "Account not found")
    /\ WrongSecret(req) => resp = Response("login", 401, "Incorrect password")

\* C8 witness: a wrong secret for the Faculty account was answered
C8_Witness ==
    /\ WrongSecret(req) /\ req.account_id = "F001"
    /\ resp.status = 401

\* when an access token was issued: AccessTokenOf sets its expiry one access
\* lifetime after the time of issue
IssuedAt(tok) == tok.exp - AccessLifetime

\* the outcome of current_user for a cookie that is no refresh token, with
\* the access token counted as expired when expired holds
CurrentUserOutcome(expired) ==
    LET c == req.cookie
    IN  IF c = NoCookie
        THEN resp = Response("me", 401, "Not authenticated")
        ELSE IF c.form = "jwt" /\ c.sig = "ok" /\ expired
        THEN resp = Response("me", 401, "Token expired")
        ELSE IF c.form # "jwt" \/ c.sig # "ok"
        THEN resp = Response("me", 401, "Invalid token")
        ELSE /\ resp.status = 200
             /\ resp.username = c.username
             /\ resp.role = c.role

\* C9 as stated: current_user answers NotAuthenticated without a cookie,
\* TokenExpired when the access token was issued more than 15 minutes before
\* the call, InvalidToken on a bad signature or structure, and 200 with the
\* token's subject and role otherwise.
C9_CurrentUserOutcomes ==
    (resp.op = "me" /\ req.cookie.token_type # "refresh")
    => CurrentUserOutcome(now - IssuedAt(req.cookie) > AccessLifetime)

\* C9 amended: the same, with TokenExpired from the second the token
\* expires: when it was issued 15 minutes or more before the call.
C9_CurrentUserOutcomesAtExpiry ==
    (resp.op = "me" /\ req.cookie.token_type # "refresh")
    => CurrentUserOutcome(now - IssuedAt(req.cookie) >= AccessLifetime)

\* C9 witness: an access token presented exactly 15 minutes after its issue
\* was answered TokenExpired
C9_Witness ==
    /\ resp.op = "me"
    /\ req.cookie.token_type = "access" /\ req.cookie.sig = "ok"
    /\ now - IssuedAt(req.cookie) = AccessLifetime
    /\ resp.error = "Token expired"

\* C10: current_user accepts every signed access token that has not expired,
\* whatever the ledger and the store hold: also the access token of a session
\* whose refresh token has been revoked by a logout.
C10_CurrentUserIgnoresLedger ==
    (/\ resp.op = "me"
     /\ req.cookie.form = "jwt" /\ req.cookie.sig = "ok"
     /\ req.cookie.token_type = "access"
     /\ now < req.cookie.exp)
    => /\ resp.status = 200
       /\ resp.username = req.cookie.username
       /\ resp.role = req.cookie.role

\* C10 witness: an access token was accepted after the refresh token of its
\* session had been blacklisted
C10_Witness ==
    /\ resp.op = "me" /\ resp.status = 200
    /\ req.cookie.token_type = "access"
    /\ \E r \in loggedOut : /\ r.jti \in blacklist
                             /\ r.username = req.cookie.username
                             /\ r.iat = req.cookie.iat

\* the three flows that open a session
IssuingFlows == {"login", "google", "github"}

Roles == {"Student", "Faculty", "Admin"}

\* C11: the tokens a session is opened with decode, while unexpired, to the
\* subject and role they were issued for, whichever of the three roles it is;
\* and current_user called with the access cookie a login has just set
\* returns the username and role that login reported.
C11_RoundTrip ==
    [][/\ (resp'.op \in IssuingFlows /\ resp'.status = 200)
          => /\ resp'.role \in Roles
             /\ JwtDecode(resp'.access, now') = "payload"
             /\ JwtDecode(resp'.refresh, now') = "payload"
             /\ resp'.access.username = resp'.username
             /\ resp'.access.role = resp'.role
             /\ resp'.refresh.username = resp'.username
             /\ resp'.refresh.role = resp'.role
       /\ (/\ resp.op = "login" /\ resp.status = 200
           /\ Answers("me") /\ req'.cookie = resp.access)
          => /\ resp'.status = 200
             /\ resp'.username = resp.username
             /\ resp'.role = resp.role]_vars

\* C11 witness: current_user has answered with the subject and role of the
\* Faculty account, which opens sessions by password login only
C11_Witness ==
    /\ resp.op = "me" /\ resp.status = 200
    /\ req.cookie \in issued /\ req.cookie.token_type = "access"
    /\ resp.username = "F001" /\ resp.role = "Faculty"

\* C12: a successful login sets the refresh-cookie max-age to 86400 without
\* stayLoggedIn and to 2592000 with it; a successful refresh sets it to
\* 86400 whatever session it renews; every flow that sets the access cookie
\* gives it max-age 900.
C12_CookieMaxAges ==
    resp.status = 200
    => /\ resp.op = "login"
          => resp.refresh_max_age = IF req.stay_logged_in THEN 2592000 ELSE 86400
       /\ resp.op = "refresh" => resp.refresh_max_age = 86400
       /\ resp.op \in IssuingFlows \cup {"refresh"}
          => (resp.access # NoCookie /\ resp.access_max_age = 900)

\* C12 witness: the session of an account that only a federated login opens
\* (refresh cookie of 2592000 seconds) was refreshed and the refresh cookie
\* set again with 86400
C12_Witness ==
    /\ resp.op = "refresh" /\ resp.status = 200
    /\ req.cookie.username = "new@x"
    /\ resp.refresh_max_age = 86400 /\ resp.access_max_age = 900

\* C13: the refresh token of a successful login expires one day after its
\* issue without stayLoggedIn and thirty days after it with stayLoggedIn, and
\* so does not expire before the cookie that carries it.
C13_RefreshLifetimeByStay ==
    (resp.op = "login" /\ resp.status = 200)
    => /\ resp.refresh.exp - resp.refresh.iat
            = IF req.stay_logged_in THEN 30 * 86400 ELSE 86400
       /\ resp.refresh.exp >= now + resp.refresh_max_age

CookieFlows == IssuingFlows \cup {"refresh", "logout"}

\* C14: every response of login, refresh, logout, google and github sets
\* both cookies, or deletes both, or touches neither; and where the access
\* cookie is set, the refresh cookie set with it holds a refresh token that
\* verifies and names the same subject and role.
C14_CookiePair ==
    resp.op \in CookieFlows
    => /\ (resp.access # NoCookie) <=> (resp.refresh # NoCookie)
       /\ resp.deleted \in {{}, {JWT_AUTH_COOKIE, JWT_AUTH_REFRESH_COOKIE}}
       /\ resp.access # NoCookie
          => /\ resp.deleted = {}
             /\ resp.access.token_type = "access"
             /\ ~TokenError(resp.refresh, now, blacklist)
             /\ resp.refresh.username = resp.access.username
             /\ resp.refresh.role = resp.access.role

\* C14 witness: a refresh has set both cookies
C14_Witness ==
    /\ resp.op = "refresh"
    /\ resp.access # NoCookie /\ resp.refresh # NoCookie
    /\ resp.deleted = {}

\* C15: the subject of every token that login, google or github issues is
\* the identifier of an account the store holds when the response returns,
\* and so is the subject of every token issued so far.
C15_SubjectsExist ==
    /\ (resp.op \in IssuingFlows /\ resp.status = 200)
       => /\ ~DoesNotExist(store, resp.access.username)
          /\ ~DoesNotExist(store, resp.refresh.username)
    /\ \A tok \in issued : ~DoesNotExist(store, tok.username)

\* C15 witness: google_login has issued tokens for an account it provisioned
C15_Witness ==
    /\ resp.op = "google" /\ resp.status = 200
    /\ resp.access.username = "new@x"
    /\ \E raw \in RandomPasswords : store["new@x"] = ProvisionedAccount(raw)

\* the email a federated login resolves from the replies of the provider
ResolvedEmail(r) ==
    IF r.op = "google" THEN r.oauth.email ELSE GithubEmail(r.oauth)

\* C16: a federated login that succeeds leaves the store as it is when the
\* resolved email names an account, and the session carries that account's
\* role; otherwise it adds one account, for that email, with Status Student
\* and the hash of a random password, and changes no other row; either way
\* the refresh cookie gets max-age 2592000.
C16_FederatedFindOrCreate ==
    [][\A op \in {"google", "github"} :
         (Answers(op) /\ resp'.status = 200)
         => LET email == ResolvedEmail(req')
            IN  /\ resp'.username = email
                /\ resp'.refresh.username = email
                /\ resp'.refresh.role = resp'.role
                /\ ~DoesNotExist(store, email)
                   => /\ store' = store
                      /\ resp'.role = AccountRole(store[email])
                /\ DoesNotExist(store, email)
                   => /\ \A a \in AccountIDs \ {email} : store'[a] = store[a]
                      /\ store'[email].Status = "Student"
                      /\ resp'.role = "Student"
                      /\ \E raw \in RandomPasswords :
                            store'[email].AccountPass = make_password(raw)
                      /\ store'[email].AccountPass \notin RandomPasswords
                /\ resp'.refresh_max_age = 2592000]_vars

\* C16 witness: github_login has opened a session for an account that only
\* provisioning creates, with the 30-day refresh cookie
C16_Witness ==
    /\ resp.op = "github" /\ resp.status = 200
    /\ resp.username = "new@x" /\ resp.role = "Student"
    /\ store["new@x"].Status = "Student"
    /\ resp.refresh_max_age = 2592000

\* github_login got a token and a profile without public email, and the
\* email list was fetched
EmailNotPublic(r) ==
    /\ r.op = "github" /\ r.body_ok
    /\ r.oauth.credential # "" /\ r.oauth.first = "token"
    /\ r.oauth.profile = "ok" /\ r.oauth.email = "" /\ r.oauth.list = "ok"

\* the positions of the entries marked primary and verified
Qualifying(emails) ==
    {i \in 1 .. Len(emails) : emails[i].primary /\ emails[i].verified}

\* C17: when the profile has no public email, github_login opens the session
\* for the email of the first entry of the list that is primary and
\* verified; when no entry is both it answers EmailMissing (400), creates no
\* account and sets no cookie.
C17_GithubEmailResolution ==
    [][(Answers("github") /\ EmailNotPublic(req'))
       => LET emails == req'.oauth.emails
              q      == Qualifying(emails)
          IN  IF q = {}
              THEN /\ resp' = Response("github", 400,
                                       "No verified email found for GitHub account")
                   /\ store' = store
                   /\ issued' = issued
              ELSE /\ resp'.status = 200
                   /\ \E i \in q : /\ \A k \in q : i <= k
                                   /\ resp'.username = emails[i].email
                                   /\ resp'.access.username = emails[i].email]_vars

\* C17 witness: the first entry is verified and not primary, the second is
\* both, and the session is for the second
C17_Witness ==
    /\ EmailNotPublic(req) /\ resp.status = 200
    /\ Len(req.oauth.emails) = 2
    /\ req.oauth.emails[1].verified /\ ~req.oauth.emails[1].primary
    /\ req.oauth.emails[1].email # req.oauth.emails[2].email
    /\ resp.username = req.oauth.emails[2].email

\* C18: a refresh presenting a malformed token, an expired token, a revoked
\* token or a token an earlier refresh succeeded with is answered with one
\* and the same response: 401 "Invalid or expired refresh token".
C18_RefreshFailuresIdentical ==
    [][(/\ Answers("refresh")
        /\ req'.cookie # NoCookie
        /\ \/ req'.cookie.form # "jwt" \/ req'.cookie.sig # "ok"
           \/ req'.cookie.exp <= now'
           \/ req'.cookie.jti \in blacklist
           \/ req'.cookie \in consumed)
       => resp' = Response("refresh", 401, "Invalid or expired refresh token")]_vars

\* a request whose handling raises an exception the handler does not expect:
\* a body that is no JSON object, a provider reply that is no JSON object
Unexpected(r) == ~r.body_ok \/ r.oauth.first = "not_object"

\* C19: login, google and github answer every request with one of the mapped
\* statuses, and a request whose handling raises an unexpected exception
\* with 500.
C19_EveryFailureRecovered ==
    resp.op \in IssuingFlows
    => /\ resp.status \in {200, 400, 401, 404, 500}
       /\ Unexpected(req) => resp.status = 500

\* C20: google answers 401 when the introspection call fails in transport or
\* is answered with another status than 200; github answers 401 when the
\* token exchange, the profile fetch or the email-list fetch fails in
\* transport, and when the exchange returns no token.
C20_TransportFailuresAre401 ==
    (resp.op \in {"google", "github"} /\ req.body_ok /\ req.oauth.credential # "")
    => /\ (resp.op = "google" /\ req.oauth.first \in {"non200", "URLError"})
          => resp.status = 401
       /\ (/\ resp.op = "github"
           /\ \/ req.oauth.first \in {"no_token", "URLError"}
              \/ req.oauth.profile = "URLError"
              \/ req.oauth.list = "URLError")
          => resp.status = 401

\* C22: for a login with both fields and a known identifier, the password
\* check succeeds exactly when, the account being a Student, the secret
\* verifies against the stored hash, or, the account being Faculty or Admin,
\* the secret equals the stored value; a secret that would pass the other
\* role's check only is answered 401.
C22_MethodByRole ==
    (/\ resp.op = "login" /\ req.body_ok
     /\ req.account_id # "" /\ req.account_pass # ""
     /\ ~DoesNotExist(store, req.account_id))
    => LET profile == store[req.account_id]
           hashed  == check_password(req.account_pass, profile.AccountPass)
           equal   == req.account_pass = profile.AccountPass
       IN  /\ AccountRole(profile) \in Roles
           /\ AccountRole(profile) = "Student"
              => (resp.status = 200 <=> hashed)
           /\ AccountRole(profile) \in {"Faculty", "Admin"}
              => (resp.status = 200 <=> equal)
           /\ resp.status \in {200, 401}

\* C22 witness: a Faculty account whose stored value is the hash of the
\* submitted secret was refused
C22_Witness ==
    /\ resp.op = "login" /\ resp.status = 401
    /\ ~DoesNotExist(store, req.account_id)
    /\ AccountRole(store[req.account_id]) = "Faculty"
    /\ check_password(req.account_pass, store[req.account_id].AccountPass)

\* the tokens of the session a token belongs to: refresh.access_token copies
\* the issue time, so a session is told by subject and time of issue
SameSession(tok, other) ==
    tok.username = other.username /\ tok.iat = other.iat

\* C23: a successful refresh puts into both cookies tokens with the subject
\* and role of the presented refresh token, and every token issued so far
\* carries the subject and role of the refresh token its session's login
\* issued.
C23_RefreshKeepsSubjectAndRole ==
    /\ (resp.op = "refresh" /\ resp.status = 200)
       => /\ resp.access.username = req.cookie.username
          /\ resp.access.role = req.cookie.role
          /\ resp.refresh.username = req.cookie.username
          /\ resp.refresh.role = req.cookie.role
    /\ \A tok \in issued :
          \E r \in issued : /\ r.token_type = "refresh"
                            /\ SameSession(tok, r)
                            /\ tok.role = r.role

\* C23 witness: the second refresh in a row with the Faculty session's
\* token: its login and two refreshes have each issued an access token
C23_Witness ==
    /\ resp.op = "refresh" /\ resp.status = 200
    /\ req.cookie.role = "Faculty" /\ resp.access.role = "Faculty"
    /\ Cardinality({a \in issued : /\ a.token_type = "access"
                                   /\ SameSession(a, req.cookie)}) >= 3

\* C24: a logout presenting a refresh token that a logout has already
\* revoked leaves the ledger as it is and is answered 200.
C24_RevocationIdempotent ==
    [][(/\ req'.op = "logout" /\ req'.authenticated
        /\ req'.cookie \in loggedOut)
       => /\ blacklist' = blacklist
          /\ resp'.status = 200]_vars

\* C24 witness: a token logged out while it was decodable is presented to
\* logout again after its expiry; its identifier is in the ledger
C24_Witness ==
    /\ resp.op = "logout" /\ resp.status = 200
    /\ req.cookie \in loggedOut /\ req.cookie.jti \in blacklist
    /\ req.cookie.exp <= now

\* C26: current_user answers 200 only for a signed, unexpired token of kind
\* access; a signed refresh token in the access cookie is answered 401.
C26_OnlyAccessTokensRead ==
    resp.op = "me"
    => /\ resp.status = 200
          => /\ req.cookie.token_type = "access"
             /\ req.cookie.sig = "ok"
             /\ now < req.cookie.exp
       /\ (req.cookie.token_type = "refresh" /\ req.cookie.sig = "ok")
          => resp.status = 401

\* C27: the refresh token a successful refresh returns expires no later than
\* the one presented, which has not expired; and a refresh presenting a
\* token at or after its expiry is answered 401.
C27_RefreshNeverExtends ==
    [][Answers("refresh")
       => /\ resp'.status = 200
             => /\ resp'.refresh.exp <= req'.cookie.exp
                /\ now' < req'.cookie.exp
          /\ (req'.cookie # NoCookie /\ req'.cookie.exp <= now')
             => resp'.status = 401]_vars

\* C27 witness: a token that refreshes had succeeded with was refused at its
\* expiry
C27_Witness ==
    /\ resp.op = "refresh" /\ resp.status = 401
    /\ req.cookie \in consumed
    /\ req.cookie.jti \notin blacklist
    /\ req.cookie.exp <= now

\* C28: a login, refresh, google or github request that is not answered 200
\* sets and deletes no cookie, leaves the ledger as it is and the store as it
\* is; a login or federated login that is answered 200 leaves the ledger as
\* it is.
C28_FailuresChangeNothing ==
    [][\A op \in IssuingFlows \cup {"refresh"} :
         Answers(op)
         => /\ resp'.status # 200
               => /\ resp'.access = NoCookie /\ resp'.refresh = NoCookie
                  /\ resp'.deleted = {}
                  /\ blacklist' = blacklist
                  /\ store' = store
                  /\ issued' = issued
            /\ op \in IssuingFlows => blacklist' = blacklist]_vars

\* C28 witness: github_login has answered EmailMissing while the ledger
\* holds an identifier and the store a provisioned account
C28_Witness ==
    /\ resp.op = "github" /\ resp.status = 400
    /\ EmailNotPublic(req)
    /\ blacklist # {}
    /\ ~DoesNotExist(store, "new@x")

\* C21: every federated login request that has been received is eventually
\* answered, whether the provider answers its calls or not.
C21_FederatedLoginReturns ==
    \A w \in Workers :
        (inflight[w].pc \notin {"idle", "done"}) ~> (inflight[w].pc = "done")

\* C25: every federated login that resolved an email unknown to the store
\* before, whatever other requests ran beside it, ends with a successful
\* session, and the store holds the account of that email.
C25_ConcurrentProvisioning ==
    \A w \in Workers :
        (/\ inflight[w].pc = "done"
         /\ inflight[w].email \in Emails
         /\ DoesNotExist(InitialStore, inflight[w].email))
        => /\ inflight[w].status = 200
           /\ ~DoesNotExist(store, inflight[w].email)

====
